---- MODULE Spec2Model ----
(***************************************************************************)
(* The request pipeline (withMiddleware), the axiom handlers and the       *)
(* DynamoAxiomRepository of kameleon-backend, as a state machine.          *)
(*                                                                         *)
(* Every request is an independent invocation with its own event, context  *)
(* and response; the only shared state is the table, the wall clock and    *)
(* the identifier generator.  A handler is suspended at every repository   *)
(* call (await docClient.send), so other requests interleave there.        *)
(***************************************************************************)
EXTENDS Integers, Sequences, FiniteSets, TLC

VARIABLES
    store,      \* the axioms table: a set of items, at most one per (userId, axiomId)
    clock,      \* the wall clock read by new Date()
    issued,     \* how many identifiers ulid() has handed out
    served,     \* how many requests have entered the pipeline
    isDevEnvironment, \* process.env.ENVIRONMENT is 'dev' (or unset)
    pc,         \* pc[r]: where request r is in the pipeline
    event,      \* event[r]: the APIGatewayProxyEvent of r (as the before stack leaves it)
    context,    \* context[r]: what requestLogger.before records on the Lambda context
    pending,    \* pending[r]: the command r has sent to the table and awaits
    response,   \* response[r]: request.response
    error,      \* error[r]: request.error
    logs,       \* logs[r]: the log events of r, in order
    calls,      \* calls[r]: the handler and repository methods r has invoked, in order
    effect,     \* effect[r]: the write r's command made: the item under its key before and after
    arrived,    \* arrived[r]: the event of r as it arrived
    seen,       \* seen[r]: the items that had the requested axiomId when findById was answered
    minted,     \* the identifiers create has assigned, in order
    listed,     \* listed[u]: the items of u's last list response, and whether it repeated
                \* one before it, if no write came after it
    axiomRepository, \* axiomRepository[r]: the instance cached in the process that runs r
    constructed \* constructed[r]: how many repositories that process has constructed

vars == <<store, clock, issued, served, isDevEnvironment, pc, event, context, pending, response, error, logs, calls, effect, arrived, seen, minted, listed, axiomRepository, constructed>>

----------------------------------------------------------------------------
(* Bounds of the model. *)

MaxClock == 1       \* the clock ticks at most this often
MaxCreates == 2     \* ulid() is called at most this often
MaxRequests == 3    \* at most this many requests enter the pipeline when they overlap
MaxInTurn == 2      \* at most this many requests enter the pipeline one at a time
MaxToEnd == 1       \* at most this many requests are followed to their end

Reqs == {"r1", "r2"}            \* invocations that may be in flight together
Users == {"u1", "u2"}           \* verified caller ids (claims.sub)
NoSub == "<no sub>"             \* the authorizer claims carry no sub
NoPath == "<no pathParameters>" \* event.pathParameters is null

(* The identifiers ulid() returns, in the order it returns them.  A ULID is *)
(* a 48-bit timestamp followed by 80 random bits; the library's contract,   *)
(* that no two calls return the same value, is taken as given.              *)
UlidPool == <<"01A", "01B", "01C", "01D">>

----------------------------------------------------------------------------
(* JSON numbers.  [int |-> i, half |-> h] is i, or i + 1/2 when h: enough   *)
(* to tell integers from non-integers on both sides of zero.                *)

Num(i) == [int |-> i, half |-> FALSE]
NumHalf(i) == [int |-> i, half |-> TRUE]
IsInteger(n) == ~n.half
IsBelowZero(n) == n.int < 0

(* A 101-character name. *)
LongName == "xxxxxxxxxxxxxxxxxxxxxxxxxxxxxxxxxxxxxxxxxxxxxxxxxxxxxxxxxxxxxxxxxxxxxxxxxxxxxxxxxxxxxxxxxxxxxxxxxxxxx"

----------------------------------------------------------------------------
(* The table.  An item is a function from attribute names to values; the    *)
(* key attributes userId and axiomId are always present.                    *)

(* A lookup by the sort key alone, whoever the owner is. *)
GetItemOfAnyOwner(st, userId, axiomId) ==
    {i \in st : i.axiomId = axiomId}

GetItem(st, userId, axiomId) ==
    {i \in st : i.userId = userId /\ i.axiomId = axiomId}

(* A query that misses the items written at the current clock reading. *)
QueryBeforeNow(st, userId) == {i \in st : i.userId = userId /\ i.updatedAt < clock}

QueryByUserId(st, userId) == {i \in st : i.userId = userId}

(* The default-axioms-index holds the items that have its key attributes. *)
QueryDefaultIndex(st) ==
    {i \in st : "isDefault" \in DOMAIN i /\ "sortOrder" \in DOMAIN i /\ i.isDefault = TRUE}

PutItem(st, item) ==
    {i \in st : ~(i.userId = item.userId /\ i.axiomId = item.axiomId)} \cup {item}

(* UpdateItem with a SET expression and no ConditionExpression: the item is *)
(* created from its key when there is none.  Returns the ALL_NEW item.      *)
UpdatedItem(st, userId, axiomId, sets) ==
    LET found == GetItem(st, userId, axiomId)
        old == IF found = {} THEN [userId |-> userId, axiomId |-> axiomId]
               ELSE CHOOSE i \in found : TRUE
    IN  [a \in DOMAIN old \cup DOMAIN sets |->
            IF a \in DOMAIN sets THEN sets[a] ELSE old[a]]

(* An update conditional on the item's existence, ignored when there is    *)
(* none.                                                                    *)
UpdateItemIfExists(st, userId, axiomId, sets) ==
    IF GetItem(st, userId, axiomId) = {} THEN st
    ELSE PutItem(st, UpdatedItem(st, userId, axiomId, sets))

UpdateItem(st, userId, axiomId, sets) ==
    PutItem(st, UpdatedItem(st, userId, axiomId, sets))

(* A delete that removes nothing. *)
DeleteNothing(st, userId, axiomId) == st

DeleteItem(st, userId, axiomId) ==
    {i \in st : ~(i.userId = userId /\ i.axiomId = axiomId)}

(* The system-seeded default records the table starts with. *)
SeedAxiom(userId, axiomId, sortOrder) ==
    [userId |-> userId, axiomId |-> axiomId, name |-> "Default",
     description |-> "System default", isDefault |-> TRUE, isActive |-> TRUE,
     sortOrder |-> sortOrder, createdAt |-> 0, updatedAt |-> 0]

SeedStore == {SeedAxiom("sys", "d1", 0), SeedAxiom("u1", "d2", 1)}

----------------------------------------------------------------------------
(* Request bodies.  event.body arrives as one of:                           *)
(*   [kind |-> "null"]       no body;                                       *)
(*   [kind |-> "malformed"]  a JSON content type and a body that is no JSON;*)
(*   [kind |-> "text"]       a body under a content type that is not JSON;  *)
(*   [kind |-> "object", value |-> o]  a JSON object o, a function from the *)
(*                           field names it has to their values.            *)

NullBody == [kind |-> "null"]
MalformedBody == [kind |-> "malformed"]
TextBody == [kind |-> "text"]
ObjectBody(o) == [kind |-> "object", value |-> o]

(* `event.body` as a condition: null is falsy, a string or an object is not. *)
BodyTruthy(body) == body.kind # "null"

----------------------------------------------------------------------------
(* Zod.  parse() collects one issue per failed check, in the order of the   *)
(* shape's keys and of each key's checks.                                   *)

Issue(path, message) == [path |-> path, message |-> message]

(* z.string().min(lo).max(hi) *)
StringIssues(path, v, lo, hi) ==
    (IF Len(v) < lo THEN <<Issue(path, "too_small")>> ELSE <<>>)
    \o (IF Len(v) > hi THEN <<Issue(path, "too_big")>> ELSE <<>>)

(* z.number().int().min(0) *)
SortOrderIssues(path, n) ==
    (IF ~IsInteger(n) THEN <<Issue(path, "not_integer")>> ELSE <<>>)
    \o (IF IsBelowZero(n) THEN <<Issue(path, "too_small")>> ELSE <<>>)

Has(o, field) == field \in DOMAIN o

RequiredString(o, field, lo, hi) ==
    IF Has(o, field) THEN StringIssues(field, o[field], lo, hi)
    ELSE <<Issue(field, "Required")>>

OptionalString(o, field, lo, hi) ==
    IF Has(o, field) THEN StringIssues(field, o[field], lo, hi) ELSE <<>>

OptionalSortOrder(o) ==
    IF Has(o, "sortOrder") THEN SortOrderIssues("sortOrder", o.sortOrder) ELSE <<>>

NotAnObject == <<Issue("", "Expected object")>>

(* create-axiom.ts bodySchema *)
CreateBodyIssues(body) ==
    IF body.kind # "object" THEN NotAnObject
    ELSE RequiredString(body.value, "name", 1, 100)
         \o RequiredString(body.value, "description", 1, 500)
         \o OptionalSortOrder(body.value)

(* update-axiom.ts bodySchema *)
UpdateBodyIssues(body) ==
    IF body.kind # "object" THEN NotAnObject
    ELSE OptionalString(body.value, "name", 1, 100)
         \o OptionalString(body.value, "description", 1, 500)
         \o OptionalSortOrder(body.value)

(* pathSchema of get, update and delete: { axiomId: z.string().min(1) } *)
PathIssues(axiomId) ==
    IF Len(axiomId) < 1 THEN <<Issue("axiomId", "too_small")>> ELSE <<>>

(* The value parse() returns for a body that passed: the fields of the      *)
(* schema that the body has (z.object strips every other key); a sortOrder  *)
(* that passed is an integer and is kept as that integer.                   *)
SchemaKeys == {"name", "description", "isActive", "sortOrder"}

ParsedBody(body) ==
    ObjectBody([f \in DOMAIN body.value \cap SchemaKeys |->
        IF f = "sortOrder" THEN body.value[f].int ELSE body.value[f]])

(* MiddlewareOptions of each operation: which schemas withMiddleware got. *)
HasBodySchema(op) == op \in {"create", "update"}
HasPathSchema(op) == op \in {"get", "update", "delete"}

BodyIssues(op, body) ==
    IF op = "create" THEN CreateBodyIssues(body) ELSE UpdateBodyIssues(body)

----------------------------------------------------------------------------
(* Values that may be missing. *)

Undefined == [undefined |-> TRUE]
IsDefined(x) == "undefined" \notin DOMAIN x

Merge(f, g) == [k \in DOMAIN f \cup DOMAIN g |-> IF k \in DOMAIN g THEN g[k] ELSE f[k]]

----------------------------------------------------------------------------
(* Responses.  body is [kind |-> "json", value |-> v] for JSON.stringify(v), *)
(* [kind |-> "empty"] for '', [kind |-> "text", value |-> s] for a plain     *)
(* string, and [kind |-> "none"] when the response has no body.              *)

JsonBody(v) == [kind |-> "json", value |-> v]
EmptyBody == [kind |-> "empty"]
TextMessage(s) == [kind |-> "text", value |-> s]
NoBody == [kind |-> "none"]
NoHeaders == [k \in {} |-> ""]

Response(statusCode, headers, body) ==
    [statusCode |-> statusCode, headers |-> headers, body |-> body]

getCorsHeaders(isDev) ==
    [k \in {"Access-Control-Allow-Origin", "Access-Control-Allow-Credentials",
            "Access-Control-Allow-Headers", "Access-Control-Allow-Methods"} |->
        CASE k = "Access-Control-Allow-Origin" ->
                (IF isDev THEN "http://localhost:3000" ELSE "*")
          [] k = "Access-Control-Allow-Credentials" -> "true"
          [] k = "Access-Control-Allow-Headers" ->
                "Content-Type,Authorization,X-Amz-Date,X-Api-Key,X-Amz-Security-Token"
          [] OTHER -> "GET,POST,PUT,PATCH,DELETE,OPTIONS"]

success(data) == Response(200, NoHeaders, JsonBody(data))
created(data) == Response(201, NoHeaders, JsonBody(data))
noContent == Response(204, NoHeaders, EmptyBody)
forbidden(isDev, message) ==
    Response(403, getCorsHeaders(isDev), JsonBody([error |-> "Forbidden", message |-> message]))
notFound(isDev, message) ==
    Response(404, getCorsHeaders(isDev), JsonBody([error |-> "Not Found", message |-> message]))

(* The response zodValidator returns for a ZodError. *)
validationError(isDev, issues) ==
    Response(400, getCorsHeaders(isDev),
             JsonBody([error |-> "Validation Error", message |-> "Invalid request data",
                       details |-> issues]))

----------------------------------------------------------------------------
(* Errors thrown inside the pipeline. *)

PlainError(name, message) == [name |-> name, message |-> message]
HttpError(statusCode, message) ==
    [name |-> "HttpError", message |-> message, statusCode |-> statusCode]

(* getUserId: the caller id, or a throw when claims.sub is missing. *)
HasUserId(ev) == ev.sub # NoSub
getUserId(ev) == ev.sub
UserIdError == PlainError("Error", "User ID not found in claims")

(* Reading a property of null: event.body.name, input.name, the            *)
(* destructuring of event.pathParameters.                                  *)
NullDeref == PlainError("TypeError", "Cannot read properties of null")

(* docClient.send rejected. *)
StoreError == PlainError("DynamoDBServiceException", "The request failed")

----------------------------------------------------------------------------
(* The steps of the middleware stack.  withMiddleware attaches, in order:   *)
(* captureLambdaHandler, injectLambdaContext, logMetrics (none of which     *)
(* touches the event or the response), httpJsonBodyParser, httpCors,        *)
(* requestLogger, zodValidator, httpErrorHandler.  Middy runs the `before`  *)
(* hooks in that order and the `after` and `onError` hooks in reverse.      *)

Log(message) == [message |-> message]
LogStatus(message, statusCode) == [message |-> message, statusCode |-> statusCode]

(* requestLogger.before: header, else request id, else a synthesized id. *)
ResolveCorrelationId(ev) ==
    IF ev.correlationHeader # "" THEN ev.correlationHeader
    ELSE IF ev.requestId # "" THEN ev.requestId
    ELSE "generated"

(* zodValidator.before: the issues of the first part that has any.  A part  *)
(* is parsed only when its schema is given and the part is truthy.          *)
ValidatedBodyIssues(ev) ==
    IF HasBodySchema(ev.op) /\ BodyTruthy(ev.body) THEN BodyIssues(ev.op, ev.body) ELSE <<>>

ValidatedPathIssues(ev) ==
    IF HasPathSchema(ev.op) /\ ev.path # NoPath THEN PathIssues(ev.path) ELSE <<>>

(* A validation that parses every part and reports all issues together. *)
IssuesOfAllParts(ev) == ValidatedBodyIssues(ev) \o ValidatedPathIssues(ev)

ValidationIssues(ev) ==
    IF ValidatedBodyIssues(ev) # <<>> THEN ValidatedBodyIssues(ev) ELSE ValidatedPathIssues(ev)

(* The event zodValidator hands on: the parts it parsed are replaced. *)
ValidatedEvent(ev) ==
    IF HasBodySchema(ev.op) /\ BodyTruthy(ev.body)
    THEN [ev EXCEPT !.body = ParsedBody(ev.body)] ELSE ev

(* An error handler that answers HTTP errors only and leaves every other   *)
(* error without a response.                                                *)
HttpErrorsOnly(err) ==
    IF "statusCode" \in DOMAIN err /\ err.statusCode < 500
    THEN Response(err.statusCode, [k \in {"Content-Type"} |-> "text/plain"],
                  TextMessage(err.message))
    ELSE Undefined

(* httpErrorHandler.onError: an error with a statusCode below 500 is        *)
(* exposed as it is; anything else becomes a bare 500 (no fallbackMessage   *)
(* is configured, so it has no body).                                       *)
HttpErrorHandlerOnError(err) ==
    IF "statusCode" \in DOMAIN err /\ err.statusCode < 500
    THEN Response(err.statusCode, [k \in {"Content-Type"} |-> "text/plain"],
                  TextMessage(err.message))
    ELSE Response(500, NoHeaders, NoBody)

(* httpCors: the origins withMiddleware passes when no corsOrigins is given. *)
DefaultOrigins(isDev) ==
    IF isDev THEN <<"http://localhost:3000", "http://localhost:3001">> ELSE <<"*">>

(* httpCors.after / onError on a request without an Origin header: the      *)
(* headers it sets unless the response already has them.                    *)
HttpCorsHeaders(isDev) ==
    [k \in {"Access-Control-Allow-Origin", "Access-Control-Allow-Credentials",
            "Access-Control-Allow-Headers"} |->
        CASE k = "Access-Control-Allow-Origin" -> DefaultOrigins(isDev)[1]
          [] k = "Access-Control-Allow-Credentials" -> "true"
          [] OTHER -> "Content-Type,Authorization,X-Amz-Date,X-Api-Key,X-Amz-Security-Token"]

HttpCorsAfter(resp, isDev) ==
    [resp EXCEPT !.headers = Merge(HttpCorsHeaders(isDev), resp.headers)]

(* requestLogger.after: stamp the response with the correlation id. *)
RequestLoggerAfter(resp, ctx) ==
    IF IsDefined(ctx)
    THEN [resp EXCEPT !.headers =
            Merge(resp.headers, [k \in {"X-Correlation-Id"} |-> ctx.correlationId])]
    ELSE resp

----------------------------------------------------------------------------
(* Repository (DynamoAxiomRepository): what each method sends to the table. *)

(* toISOString renders the clock reading in a fixed-width format whose      *)
(* order is the order of the readings; a timestamp is kept as its reading.  *)
ToISOString(ms) == ms

ulid(n) == UlidPool[n + 1]

(* A create whose isActive is false unless the input says true. *)
CreateItemInactive(userId, input, now, axiomId) ==
    [userId |-> userId, axiomId |-> axiomId, name |-> input.name,
     description |-> input.description, isDefault |-> FALSE,
     isActive |-> Has(input, "isActive") /\ input.isActive,
     sortOrder |-> IF Has(input, "sortOrder") THEN input.sortOrder ELSE 0,
     createdAt |-> now, updatedAt |-> now]

(* A create that stores every item under one owner. *)
CreateItemUnderOneOwner(userId, input, now, axiomId) ==
    [userId |-> "u1", axiomId |-> axiomId, name |-> input.name,
     description |-> input.description, isDefault |-> FALSE,
     isActive |-> IF Has(input, "isActive") THEN input.isActive ELSE TRUE,
     sortOrder |-> IF Has(input, "sortOrder") THEN input.sortOrder ELSE 0,
     createdAt |-> ToISOString(now), updatedAt |-> ToISOString(now)]

(* A create that stores its item as a default. *)
CreateItemAsDefault(userId, input, now, axiomId) ==
    [userId |-> userId, axiomId |-> axiomId, name |-> input.name,
     description |-> input.description, isDefault |-> TRUE,
     isActive |-> IF Has(input, "isActive") THEN input.isActive ELSE TRUE,
     sortOrder |-> IF Has(input, "sortOrder") THEN input.sortOrder ELSE 0,
     createdAt |-> ToISOString(now), updatedAt |-> ToISOString(now)]

(* create: the item it puts. *)
CreateItem(userId, input, now, axiomId) ==
    [userId |-> userId, axiomId |-> axiomId, name |-> input.name,
     description |-> input.description, isDefault |-> FALSE,
     isActive |-> IF Has(input, "isActive") THEN input.isActive ELSE TRUE,
     sortOrder |-> IF Has(input, "sortOrder") THEN input.sortOrder ELSE 0,
     createdAt |-> ToISOString(now), updatedAt |-> ToISOString(now)]

(* An update whose SET expression leaves sortOrder out. *)
UpdateSetsWithoutSortOrder(input, now) ==
    [a \in {"updatedAt"} \cup (DOMAIN input \cap {"name", "description", "isActive"}) |->
        IF a = "updatedAt" THEN now ELSE input[a]]

(* update: the attributes its SET expression assigns. *)
UpdateSets(input, now) ==
    [a \in {"updatedAt"} \cup (DOMAIN input \cap {"name", "description", "isActive", "sortOrder"}) |->
        IF a = "updatedAt" THEN ToISOString(now) ELSE input[a]]

(* `existing.isDefault` as a condition; an item without the attribute is    *)
(* not a default.                                                           *)
IsDefaultItem(item) == Has(item, "isDefault") /\ item.isDefault = TRUE

(* Commands in flight. *)
QueryCommand(userId) == [cmd |-> "Query", userId |-> userId]
IndexQueryCommand(userAxioms) == [cmd |-> "IndexQuery", userAxioms |-> userAxioms]
GetCommand(userId, axiomId) == [cmd |-> "Get", userId |-> userId, axiomId |-> axiomId]
PutCommand(item) == [cmd |-> "Put", item |-> item]
UpdateCommand(userId, axiomId, sets) ==
    [cmd |-> "Update", userId |-> userId, axiomId |-> axiomId, sets |-> sets]
DeleteCommand(userId, axiomId) == [cmd |-> "Delete", userId |-> userId, axiomId |-> axiomId]

----------------------------------------------------------------------------
(* Query results are sequences.  A table query returns the partition in     *)
(* sort-key (axiomId) order, an index query in sortOrder order.             *)

AxiomIdOrder == UlidPool \o <<"d1", "d2">>
IdRank(axiomId) == CHOOSE i \in 1..Len(AxiomIdOrder) : AxiomIdOrder[i] = axiomId

Orderings(S) ==
    {q \in [1..Cardinality(S) -> S] : \A i, j \in 1..Cardinality(S) : i # j => q[i] # q[j]}

TableQueryResult(items) ==
    CHOOSE q \in Orderings(items) :
        \A i, j \in 1..Len(q) : i < j => IdRank(q[i].axiomId) < IdRank(q[j].axiomId)

IndexQueryResults(items) ==
    {q \in Orderings(items) : \A i, j \in 1..Len(q) : i < j => q[i].sortOrder <= q[j].sortOrder}

(* a.sortOrder - b.sortOrder; NaN (an item without sortOrder) compares as 0. *)
CompareSortOrder(a, b) ==
    IF Has(a, "sortOrder") /\ Has(b, "sortOrder") THEN a.sortOrder - b.sortOrder ELSE 0

(* Array.prototype.sort: stable; short arrays are sorted by insertion. *)
RECURSIVE InsertSorted(_, _)
InsertSorted(sorted, x) ==
    IF sorted = <<>> THEN <<x>>
    ELSE IF CompareSortOrder(sorted[Len(sorted)], x) > 0
         THEN Append(InsertSorted(SubSeq(sorted, 1, Len(sorted) - 1), x), sorted[Len(sorted)])
         ELSE Append(sorted, x)

RECURSIVE SortBySortOrder(_)
SortBySortOrder(q) ==
    IF q = <<>> THEN <<>>
    ELSE InsertSorted(SortBySortOrder(SubSeq(q, 1, Len(q) - 1)), q[Len(q)])

----------------------------------------------------------------------------
(* The requests that may arrive. *)

Subs == Users \cup {NoSub}
PathIds == {UlidPool[1], "d1", "d2", "", NoPath}

CreateObjects ==
    {[name |-> "Brevity", description |-> "Keep it short", sortOrder |-> Num(1)],
     [name |-> "Brevity", description |-> "Keep it short"],
     [name |-> "Clarity", description |-> "Be clear", isActive |-> FALSE, sortOrder |-> Num(0)],
     [name |-> "", description |-> "Keep it short"],
     [name |-> LongName, description |-> "Keep it short"],
     [name |-> "Brevity", description |-> "Keep it short", sortOrder |-> Num(-1)],
     [name |-> "", description |-> "Keep it short", sortOrder |-> Num(-1)],
     [name |-> "Brevity", description |-> "Keep it short", sortOrder |-> NumHalf(-2)],
     [name |-> "Brevity"]}

UpdateObjects ==
    {[f \in {} |-> ""],
     [sortOrder |-> Num(5)],
     [name |-> "Renamed", isActive |-> FALSE],
     [description |-> "Shorter"],
     [name |-> ""],
     [sortOrder |-> NumHalf(-2)]}

OtherBodies == {NullBody, MalformedBody, TextBody}

(* What requestLogger resolves the correlation id from: the inbound header  *)
(* and the request id, each given or not.  Reads come with every            *)
(* combination, writes with the request id API Gateway assigns.             *)
CorrelationInputs == {<<"cid-1", "req-1">>, <<"", "req-1">>, <<"", "">>}
GatewayCorrelation == <<"", "req-1">>

Event(op, sub, path, body, corr) ==
    [op |-> op, sub |-> sub, path |-> path, body |-> body,
     correlationHeader |-> corr[1], requestId |-> corr[2]]

Events ==
    {Event("list", sub, NoPath, body, corr) :
        sub \in Subs, body \in {NullBody, MalformedBody}, corr \in CorrelationInputs}
    \cup {Event("get", sub, path, NullBody, corr) :
        sub \in Subs, path \in PathIds, corr \in CorrelationInputs}
    \cup {Event("delete", sub, path, NullBody, GatewayCorrelation) :
        sub \in Subs, path \in PathIds}
    \cup {Event("create", sub, NoPath, body, GatewayCorrelation) :
        sub \in Subs, body \in {ObjectBody(o) : o \in CreateObjects} \cup OtherBodies}
    \cup {Event("update", sub, path, body, GatewayCorrelation) :
        sub \in Subs, path \in PathIds,
        body \in {ObjectBody(o) : o \in UpdateObjects} \cup OtherBodies}

(* The requests that arrive while another is in flight: those of two        *)
(* callers on the first created record, and of its owner on a default.      *)
ConcurrentEvents ==
    {Event("list", "u1", NoPath, NullBody, GatewayCorrelation)}
    \cup {Event(op, sub, UlidPool[1], NullBody, GatewayCorrelation) :
        op \in {"get", "delete"}, sub \in Users}
    \cup {Event("create", sub, NoPath,
                ObjectBody([name |-> "Brevity", description |-> "Keep it short",
                            sortOrder |-> Num(1)]), GatewayCorrelation) : sub \in Users}
    \cup {Event("update", sub, UlidPool[1], ObjectBody(o), GatewayCorrelation) :
        sub \in Users, o \in {[f \in {} |-> ""], [sortOrder |-> Num(5)]}}
    \cup {Event("update", "u1", UlidPool[1], ObjectBody([isDefault |-> TRUE]), GatewayCorrelation),
          Event("create", "u1", NoPath,
                ObjectBody([name |-> "Brevity", description |-> "Keep it short",
                            isDefault |-> TRUE]), GatewayCorrelation)}
    \cup {Event("delete", "u1", "d2", NullBody, GatewayCorrelation),
          Event("update", "u1", "d2", ObjectBody([sortOrder |-> Num(5)]), GatewayCorrelation),
          Event("update", "u1", UlidPool[1], ObjectBody([name |-> ""]), GatewayCorrelation)}

----------------------------------------------------------------------------
(* The state machine. *)

(* No request is in flight; the table holds st, and ulid() has been called  *)
(* n times.                                                                 *)
Started(st, n) ==
    /\ store = st
    /\ clock = 0
    /\ issued = n
    /\ served = 0
    /\ isDevEnvironment \in BOOLEAN
    /\ pc = [r \in Reqs |-> "Idle"]
    /\ event = [r \in Reqs |-> Undefined]
    /\ context = [r \in Reqs |-> Undefined]
    /\ pending = [r \in Reqs |-> Undefined]
    /\ response = [r \in Reqs |-> Undefined]
    /\ error = [r \in Reqs |-> Undefined]
    /\ logs = [r \in Reqs |-> <<>>]
    /\ calls = [r \in Reqs |-> <<>>]
    /\ effect = [r \in Reqs |-> Undefined]
    /\ arrived = [r \in Reqs |-> Undefined]
    /\ seen = [r \in Reqs |-> Undefined]
    /\ minted = SubSeq(UlidPool, 1, n)
    /\ listed = [u \in Users |-> Undefined]
    /\ axiomRepository = [r \in Reqs |-> Undefined]
    /\ constructed = [r \in Reqs |-> 0]

(* A freshly deployed service: the table holds the seeded defaults. *)
Init == Started(SeedStore, 0)

(* The table after u1's first create. *)
StoreAfterCreate ==
    PutItem(SeedStore,
            CreateItem("u1", [name |-> "Brevity", description |-> "Keep it short"], 0, ulid(0)))

InitAfterCreate == Started(StoreAfterCreate, 1)

shared == <<store, clock, issued, minted, listed>>

(* The module-level state of the process that runs an invocation: the     *)
(* environment it was started in and the container's cached repository.    *)
container == <<axiomRepository, constructed>>
process == <<isDevEnvironment, container>>

(* Creates that have been admitted and have not yet drawn their identifier. *)
WaitingCreates ==
    {q \in Reqs : pc[q] \in {"Received", "Dispatching"} /\ event[q].op = "create"}

(* A transport event arrives. *)
Receive(r, arriving, budget) ==
    /\ pc[r] = "Idle"
    /\ served < budget
    /\ \E ev \in arriving :
        /\ ev.op = "create" => issued + Cardinality(WaitingCreates) < MaxCreates
        /\ event' = [event EXCEPT ![r] = ev]
        /\ arrived' = [arrived EXCEPT ![r] = ev]
    /\ served' = served + 1
    /\ pc' = [pc EXCEPT ![r] = "Received"]
    /\ UNCHANGED <<shared, process, context, pending, response, error, logs, calls,
                   effect, seen>>

(* The before stack: httpJsonBodyParser, requestLogger.before and           *)
(* zodValidator.before.  A value returned by a before hook is the response: *)
(* middy then skips the handler and the after stack.                        *)
Before(r) ==
    /\ pc[r] = "Received"
    /\ LET ev == event[r]
           received == Append(logs[r], Log("Request received"))
       IN  IF ev.body.kind = "malformed"
           THEN /\ error' = [error EXCEPT ![r] =
                        HttpError(415, "Invalid or malformed JSON was provided")]
                /\ pc' = [pc EXCEPT ![r] = "HandlerFailed"]
                /\ UNCHANGED <<event, context, response, logs>>
           ELSE /\ context' = [context EXCEPT ![r] =
                        [correlationId |-> ResolveCorrelationId(ev)]]
                /\ IF ValidationIssues(ev) # <<>>
                   THEN /\ logs' = [logs EXCEPT ![r] =
                                Append(received, Log("Request validation failed"))]
                        /\ response' = [response EXCEPT ![r] =
                                validationError(isDevEnvironment, ValidationIssues(ev))]
                        /\ pc' = [pc EXCEPT ![r] = "Rejected"]
                        /\ UNCHANGED <<event, error>>
                   ELSE /\ logs' = [logs EXCEPT ![r] = received]
                        /\ event' = [event EXCEPT ![r] = ValidatedEvent(ev)]
                        /\ pc' = [pc EXCEPT ![r] = "Dispatching"]
                        /\ UNCHANGED <<response, error>>
    /\ UNCHANGED <<shared, served, process, pending, calls, effect, arrived, seen>>

----------------------------------------------------------------------------
(* How a handler step ends: it throws, it returns a response, or it sends   *)
(* a command to the table and is suspended until the reply.                 *)

Throw(r, err) ==
    /\ error' = [error EXCEPT ![r] = err]
    /\ pc' = [pc EXCEPT ![r] = "HandlerFailed"]
    /\ pending' = [pending EXCEPT ![r] = Undefined]
    /\ UNCHANGED response

Return(r, resp) ==
    /\ response' = [response EXCEPT ![r] = resp]
    /\ pc' = [pc EXCEPT ![r] = "HandlerSucceeded"]
    /\ pending' = [pending EXCEPT ![r] = Undefined]
    /\ UNCHANGED error

Send(r, command) ==
    /\ pending' = [pending EXCEPT ![r] = command]
    /\ pc' = [pc EXCEPT ![r] = "AwaitStore"]
    /\ UNCHANGED <<response, error>>

Called(r, names) == calls' = [calls EXCEPT ![r] = calls[r] \o names]
Logged(r, message) == logs' = [logs EXCEPT ![r] = Append(logs[r], Log(message))]

Dispatching(r, op) == pc[r] = "Dispatching" /\ event[r].op = op
Awaiting(r, op, cmd) == pc[r] = "AwaitStore" /\ event[r].op = op /\ pending[r].cmd = cmd

invocation == <<served, isDevEnvironment, event, context, arrived>>
local == <<invocation, container>>

(* A container that constructs a repository on every call. *)
getFreshRepository(r) ==
    /\ axiomRepository' =
            [axiomRepository EXCEPT ![r] = [instance |-> constructed[r] + 1]]
    /\ constructed' = [constructed EXCEPT ![r] = constructed[r] + 1]

(* container.ts getAxiomRepository: the cached instance, constructed on    *)
(* the first call.                                                          *)
getAxiomRepository(r) ==
    IF IsDefined(axiomRepository[r])
    THEN UNCHANGED container
    ELSE /\ axiomRepository' =
                [axiomRepository EXCEPT ![r] = [instance |-> constructed[r] + 1]]
         /\ constructed' = [constructed EXCEPT ![r] = constructed[r] + 1]

(* container.ts resetContainer: forget the cached instance. *)
resetContainer(r) ==
    /\ axiomRepository' = [axiomRepository EXCEPT ![r] = Undefined]
    /\ UNCHANGED <<shared, invocation, constructed, pc, pending, response, error, logs,
                   calls, effect, seen>>

Saw(r) ==
    seen' = [seen EXCEPT ![r] = [items |-> {i \in store : i.axiomId = pending[r].axiomId}]]

Wrote(r, userId, axiomId) ==
    /\ effect' = [effect EXCEPT ![r] =
        [before |-> GetItem(store, userId, axiomId), after |-> GetItem(store', userId, axiomId)]]
    /\ listed' = [u \in Users |-> Undefined]

----------------------------------------------------------------------------
(* list-axioms.ts: the list handler. *)

ListHandler(r) ==
    /\ Dispatching(r, "list")
    /\ IF ~HasUserId(event[r])
       THEN /\ Throw(r, UserIdError)
            /\ Called(r, <<"handler">>)
            /\ UNCHANGED <<logs, container>>
       ELSE /\ Logged(r, "Listing axioms for user")
            /\ getAxiomRepository(r)
            /\ Called(r, <<"handler", "findByUserId">>)
            /\ Send(r, QueryCommand(getUserId(event[r])))
    /\ UNCHANGED <<shared, invocation, effect, seen>>

ListUserAxioms(r) ==
    /\ Awaiting(r, "list", "Query")
    /\ Called(r, <<"findDefaults">>)
    /\ Send(r, IndexQueryCommand(TableQueryResult(QueryByUserId(store, pending[r].userId))))
    /\ UNCHANGED <<shared, local, logs, effect, seen>>

ListResponse(defaultAxioms, userAxioms) ==
    LET allAxioms == SortBySortOrder(defaultAxioms \o userAxioms)
    IN  success([items |-> allAxioms,
                 counts |-> [total |-> Len(allAxioms), custom |-> Len(userAxioms),
                             default |-> Len(defaultAxioms)]])

ListDefaults(r) ==
    /\ Awaiting(r, "list", "IndexQuery")
    /\ \E defaultAxioms \in IndexQueryResults(QueryDefaultIndex(store)) :
            /\ Return(r, ListResponse(defaultAxioms, pending[r].userAxioms))
            /\ listed' = [listed EXCEPT ![getUserId(event[r])] =
                    [items |-> ListResponse(defaultAxioms, pending[r].userAxioms).body.value.items,
                     again |-> IsDefined(listed[getUserId(event[r])])]]
    /\ UNCHANGED <<store, clock, issued, minted, local, logs, calls, effect, seen>>

(* list-axioms.ts (second handler of the file): the get handler. *)

GetHandler(r) ==
    /\ Dispatching(r, "get")
    /\ IF ~HasUserId(event[r])
       THEN /\ Throw(r, UserIdError)
            /\ Called(r, <<"handler">>)
            /\ UNCHANGED <<logs, container>>
       ELSE IF event[r].path = NoPath
       THEN /\ Throw(r, NullDeref)
            /\ Called(r, <<"handler">>)
            /\ UNCHANGED <<logs, container>>
       ELSE /\ Logged(r, "Getting axiom")
            /\ getAxiomRepository(r)
            /\ Called(r, <<"handler", "findById">>)
            /\ Send(r, GetCommand(getUserId(event[r]), event[r].path))
    /\ UNCHANGED <<shared, invocation, effect, seen>>

GetResponse(isDev, found) ==
    IF found = {} THEN notFound(isDev, "Axiom not found")
    ELSE success([axiom |-> CHOOSE i \in found : TRUE])

GetFound(r) ==
    /\ Awaiting(r, "get", "Get")
    /\ Saw(r)
    /\ Return(r, GetResponse(isDevEnvironment,
                             GetItem(store, pending[r].userId, pending[r].axiomId)))
    /\ UNCHANGED <<shared, local, logs, calls, effect>>

(* create-axiom.ts: the create handler, with DynamoAxiomRepository.create. *)

CreateHandler(r) ==
    /\ Dispatching(r, "create")
    /\ IF ~HasUserId(event[r])
       THEN /\ Throw(r, UserIdError)
            /\ Called(r, <<"handler">>)
            /\ UNCHANGED <<logs, issued, minted, container>>
       ELSE IF ~BodyTruthy(event[r].body)
       THEN /\ getAxiomRepository(r)
            /\ Throw(r, NullDeref)
            /\ Called(r, <<"handler">>)
            /\ UNCHANGED <<logs, issued, minted>>
       ELSE /\ getAxiomRepository(r)
            /\ Logged(r, "Creating axiom")
            /\ Called(r, <<"handler", "create">>)
            /\ issued' = issued + 1
            /\ minted' = Append(minted, ulid(issued))
            /\ Send(r, PutCommand(CreateItem(getUserId(event[r]), event[r].body.value,
                                             clock, ulid(issued))))
    /\ UNCHANGED <<store, clock, listed, invocation, effect, seen>>

CreatePut(r) ==
    /\ Awaiting(r, "create", "Put")
    /\ store' = PutItem(store, pending[r].item)
    /\ Wrote(r, pending[r].item.userId, pending[r].item.axiomId)
    /\ Return(r, created([axiom |-> pending[r].item, message |-> "Axiom created successfully"]))
    /\ UNCHANGED <<clock, issued, minted, local, logs, calls, seen>>

(* update-axiom.ts: the update handler, with DynamoAxiomRepository.update. *)

UpdateHandler(r) ==
    /\ Dispatching(r, "update")
    /\ IF ~HasUserId(event[r])
       THEN /\ Throw(r, UserIdError)
            /\ Called(r, <<"handler">>)
            /\ UNCHANGED <<logs, container>>
       ELSE IF event[r].path = NoPath
       THEN /\ Throw(r, NullDeref)
            /\ Called(r, <<"handler">>)
            /\ UNCHANGED <<logs, container>>
       ELSE /\ Logged(r, "Updating axiom")
            /\ getAxiomRepository(r)
            /\ Called(r, <<"handler", "findById">>)
            /\ Send(r, GetCommand(getUserId(event[r]), event[r].path))
    /\ UNCHANGED <<shared, invocation, effect, seen>>

(* findById has answered: 404, 403, or on to repository.update, which reads *)
(* the clock and the input's fields before it sends its command.            *)
UpdateFound(r) ==
    /\ Awaiting(r, "update", "Get")
    /\ Saw(r)
    /\ LET existing == GetItem(store, pending[r].userId, pending[r].axiomId)
       IN  IF existing = {}
           THEN /\ Return(r, notFound(isDevEnvironment, "Axiom not found"))
                /\ UNCHANGED calls
           ELSE IF \E i \in existing : IsDefaultItem(i)
           THEN /\ Return(r, forbidden(isDevEnvironment, "Cannot update default axioms"))
                /\ UNCHANGED calls
           ELSE IF ~BodyTruthy(event[r].body)
           THEN /\ Throw(r, NullDeref)
                /\ Called(r, <<"update">>)
           ELSE /\ Send(r, UpdateCommand(pending[r].userId, pending[r].axiomId,
                                         UpdateSets(event[r].body.value, clock)))
                /\ Called(r, <<"update">>)
    /\ UNCHANGED <<shared, local, logs, effect>>

UpdateApplied(r) ==
    /\ Awaiting(r, "update", "Update")
    /\ LET c == pending[r]
       IN  /\ store' = UpdateItem(store, c.userId, c.axiomId, c.sets)
           /\ Wrote(r, c.userId, c.axiomId)
           /\ Return(r, success([axiom |-> UpdatedItem(store, c.userId, c.axiomId, c.sets),
                                 message |-> "Axiom updated successfully"]))
    /\ UNCHANGED <<clock, issued, minted, local, logs, calls, seen>>

(* The delete handler, with DynamoAxiomRepository.delete. *)

DeleteHandler(r) ==
    /\ Dispatching(r, "delete")
    /\ IF ~HasUserId(event[r])
       THEN /\ Throw(r, UserIdError)
            /\ Called(r, <<"handler">>)
            /\ UNCHANGED <<logs, container>>
       ELSE IF event[r].path = NoPath
       THEN /\ Throw(r, NullDeref)
            /\ Called(r, <<"handler">>)
            /\ UNCHANGED <<logs, container>>
       ELSE /\ Logged(r, "Deleting axiom")
            /\ getAxiomRepository(r)
            /\ Called(r, <<"handler", "findById">>)
            /\ Send(r, GetCommand(getUserId(event[r]), event[r].path))
    /\ UNCHANGED <<shared, invocation, effect, seen>>

DeleteFound(r) ==
    /\ Awaiting(r, "delete", "Get")
    /\ Saw(r)
    /\ LET existing == GetItem(store, pending[r].userId, pending[r].axiomId)
       IN  IF existing = {}
           THEN /\ Return(r, notFound(isDevEnvironment, "Axiom not found"))
                /\ UNCHANGED calls
           ELSE IF \E i \in existing : IsDefaultItem(i)
           THEN /\ Return(r, forbidden(isDevEnvironment, "Cannot delete default axioms"))
                /\ UNCHANGED calls
           ELSE /\ Send(r, DeleteCommand(pending[r].userId, pending[r].axiomId))
                /\ Called(r, <<"delete">>)
    /\ UNCHANGED <<shared, local, logs, effect>>

(* A delete that is conditional on the item: it fails on an absent key. *)
DeleteAppliedIfStored(r) ==
    /\ Awaiting(r, "delete", "Delete")
    /\ store' = DeleteItem(store, pending[r].userId, pending[r].axiomId)
    /\ Wrote(r, pending[r].userId, pending[r].axiomId)
    /\ IF GetItem(store, pending[r].userId, pending[r].axiomId) = {}
       THEN Throw(r, PlainError("ConditionalCheckFailedException", "The conditional request failed"))
       ELSE Return(r, noContent)
    /\ UNCHANGED <<clock, issued, minted, local, logs, calls, seen>>

DeleteApplied(r) ==
    /\ Awaiting(r, "delete", "Delete")
    /\ store' = DeleteItem(store, pending[r].userId, pending[r].axiomId)
    /\ Wrote(r, pending[r].userId, pending[r].axiomId)
    /\ Return(r, noContent)
    /\ UNCHANGED <<clock, issued, minted, local, logs, calls, seen>>

(* docClient.send rejects: the awaiting repository method and the handler   *)
(* throw; the table is as it was.                                           *)
StoreFails(r) ==
    /\ pc[r] = "AwaitStore"
    /\ Throw(r, StoreError)
    /\ UNCHANGED <<shared, local, logs, calls, effect, seen>>

----------------------------------------------------------------------------
(* How middy ends a request. *)

(* The handler returned: the after stack (requestLogger.after, httpCors). *)
After(r) ==
    /\ pc[r] = "HandlerSucceeded"
    /\ response' = [response EXCEPT ![r] =
            HttpCorsAfter(RequestLoggerAfter(response[r], context[r]), isDevEnvironment)]
    /\ logs' = [logs EXCEPT ![r] =
            Append(logs[r], LogStatus("Request completed", response[r].statusCode))]
    /\ pc' = [pc EXCEPT ![r] = "Sent"]
    /\ UNCHANGED <<shared, local, pending, error, calls, effect, seen>>

(* An onError stack without httpCors. *)
NoCorsOnError(resp, isDev) == resp

HttpCorsOnError(resp, isDev) ==
    IF IsDefined(resp) THEN HttpCorsAfter(resp, isDev) ELSE resp

(* Something threw: the onError stack (httpErrorHandler, requestLogger.     *)
(* onError, httpCors).  An error that leaves no response is thrown on.      *)
OnError(r) ==
    /\ pc[r] = "HandlerFailed"
    /\ response' = [response EXCEPT ![r] =
            HttpCorsOnError(HttpErrorHandlerOnError(error[r]), isDevEnvironment)]
    /\ logs' = [logs EXCEPT ![r] = logs[r] \o <<Log("Unhandled error"), Log("Request failed")>>]
    /\ pc' = [pc EXCEPT ![r] =
            IF IsDefined(HttpErrorHandlerOnError(error[r])) THEN "Sent" ELSE "Thrown"]
    /\ UNCHANGED <<shared, local, pending, error, calls, effect, seen>>

(* A before hook returned a response: it is the result, as it is. *)
ReturnEarly(r) ==
    /\ pc[r] = "Rejected"
    /\ pc' = [pc EXCEPT ![r] = "Sent"]
    /\ UNCHANGED <<shared, local, pending, response, error, logs, calls, effect, seen>>

(* The invocation is over; the next one starts from nothing. *)
Finish(r) ==
    /\ pc[r] \in {"Sent", "Thrown"}
    /\ pc' = [pc EXCEPT ![r] = "Idle"]
    /\ event' = [event EXCEPT ![r] = Undefined]
    /\ context' = [context EXCEPT ![r] = Undefined]
    /\ response' = [response EXCEPT ![r] = Undefined]
    /\ error' = [error EXCEPT ![r] = Undefined]
    /\ logs' = [logs EXCEPT ![r] = <<>>]
    /\ calls' = [calls EXCEPT ![r] = <<>>]
    /\ effect' = [effect EXCEPT ![r] = Undefined]
    /\ arrived' = [arrived EXCEPT ![r] = Undefined]
    /\ seen' = [seen EXCEPT ![r] = Undefined]
    /\ UNCHANGED <<shared, served, process, pending>>

Tick ==
    /\ clock < MaxClock
    /\ clock' = clock + 1
    /\ UNCHANGED <<store, issued, minted, listed, served, process, pc, event, context,
                   pending, response, error, logs, calls, effect, arrived, seen>>

(* A step of invocation r after its event has arrived, with the table      *)
(* answering its commands.                                                  *)
Proceed(r) ==
        \/ Before(r)
        \/ ListHandler(r)
        \/ ListUserAxioms(r)
        \/ ListDefaults(r)
        \/ GetHandler(r)
        \/ GetFound(r)
        \/ CreateHandler(r)
        \/ CreatePut(r)
        \/ UpdateHandler(r)
        \/ UpdateFound(r)
        \/ UpdateApplied(r)
        \/ DeleteHandler(r)
        \/ DeleteFound(r)
        \/ DeleteApplied(r)
        \/ After(r)
        \/ OnError(r)
        \/ ReturnEarly(r)
        \/ Finish(r)

(* A step of invocation r after its event has arrived. *)
Run(r) == Proceed(r) \/ StoreFails(r)

(* Invocations overlap: the requests of two callers on the first created   *)
(* record and on a default record.                                          *)
Next ==
    \E r \in Reqs : Receive(r, ConcurrentEvents, MaxRequests) \/ Run(r)

(* The overlapping invocations run in one process, in the default ('dev')   *)
(* environment.                                                             *)
InitDev == Init /\ isDevEnvironment = TRUE

Spec == InitDev /\ [][Next]_vars

(* One invocation at a time, with every request of Events. *)
NextInTurn ==
    \/ Tick
    \/ Receive("r1", Events, MaxInTurn) \/ Run("r1")

SpecInTurn == Init /\ [][NextInTurn]_vars

(* A service that has one record of u1 serves its next requests, one at a  *)
(* time.  Each is run to its end: the Lambda runtime does not abandon an    *)
(* invocation, and the table answers or fails every command.                *)
NextToEnd == Receive("r1", Events, MaxToEnd) \/ Run("r1")

InitToEnd == InitAfterCreate /\ isDevEnvironment = TRUE

SpecToEnd == InitToEnd /\ [][NextToEnd]_vars /\ WF_vars(Run("r1"))

(* The end-to-end scenario: caller u1 sends create, list, update, delete   *)
(* and get, each after the response to the one before, addressing the       *)
(* record by the id the create returned (the first ulid).  Another caller   *)
(* sends requests of its own meanwhile, none of them a write.  The table    *)
(* answers every command.                                                   *)
ScenarioRequests ==
    <<Event("create", "u1", NoPath,
            ObjectBody([name |-> "Brevity", description |-> "Keep it short",
                        sortOrder |-> Num(1)]), GatewayCorrelation),
      Event("list", "u1", NoPath, NullBody, GatewayCorrelation),
      Event("update", "u1", ulid(0), ObjectBody([sortOrder |-> Num(5)]), GatewayCorrelation),
      Event("delete", "u1", ulid(0), NullBody, GatewayCorrelation),
      Event("get", "u1", ulid(0), NullBody, GatewayCorrelation)>>

BystanderEvents ==
    {Event("get", "u2", ulid(0), NullBody, GatewayCorrelation),
     Event("list", "u2", NoPath, NullBody, GatewayCorrelation),
     Event("list", NoSub, NoPath, NullBody, GatewayCorrelation),
     Event("update", "u2", ulid(0), ObjectBody([name |-> ""]), GatewayCorrelation),
     Event("delete", "u2", ulid(0), NullBody, GatewayCorrelation)}

(* The next request of the scenario arrives. *)
ReceiveNext(r) ==
    /\ pc[r] = "Idle"
    /\ served < Len(ScenarioRequests)
    /\ event' = [event EXCEPT ![r] = ScenarioRequests[served + 1]]
    /\ arrived' = [arrived EXCEPT ![r] = ScenarioRequests[served + 1]]
    /\ served' = served + 1
    /\ pc' = [pc EXCEPT ![r] = "Received"]
    /\ UNCHANGED <<shared, process, context, pending, response, error, logs, calls,
                   effect, seen>>

(* A request of the other caller arrives. *)
ReceiveBystander(r) ==
    /\ pc[r] = "Idle"
    /\ \E ev \in BystanderEvents :
        /\ event' = [event EXCEPT ![r] = ev]
        /\ arrived' = [arrived EXCEPT ![r] = ev]
    /\ pc' = [pc EXCEPT ![r] = "Received"]
    /\ UNCHANGED <<shared, served, process, context, pending, response, error, logs,
                   calls, effect, seen>>

NextScenario ==
    \/ Tick
    \/ ReceiveNext("r1") \/ Proceed("r1")
    \/ ReceiveBystander("r2") \/ Proceed("r2")

SpecScenario == Init /\ [][NextScenario]_vars

(* One process serves requests one at a time while a test resets the       *)
(* container between and during them.                                       *)
ContainerEvents ==
    {Event("list", sub, NoPath, NullBody, GatewayCorrelation) : sub \in {"u1", NoSub}}
    \cup {Event("create", "u1", NoPath, body, GatewayCorrelation) :
            body \in {NullBody, ObjectBody([name |-> "Brevity", description |-> "Keep it short"])}}
    \cup {Event(op, "u1", path, NullBody, GatewayCorrelation) :
            op \in {"get", "delete"}, path \in {UlidPool[1], "d2", NoPath}}
    \cup {Event("update", "u1", path, ObjectBody([sortOrder |-> Num(5)]), GatewayCorrelation) :
            path \in {UlidPool[1], ""}}

NextContainer ==
    \/ Receive("r1", ContainerEvents, MaxInTurn)
    \/ Run("r1")
    \/ resetContainer("r1")

SpecContainer == Init /\ [][NextContainer]_vars

----------------------------------------------------------------------------
(* Properties. *)

Updating(r) == IsDefined(arrived[r]) /\ arrived[r].op = "update"
Creating(r) == IsDefined(arrived[r]) /\ arrived[r].op = "create"
TheItem(items) == CHOOSE i \in items : TRUE
RepositoryCalls(r) == {calls[r][k] : k \in 1..Len(calls[r])} \ {"handler"}

(* C1: an update of a key under which nothing is stored fails with         *)
(* NotFound, and nothing is stored under the key afterwards.                *)
C1_UpdateOfAbsentFails ==
    \A r \in Reqs :
        (Updating(r) /\ IsDefined(effect[r]) /\ effect[r].before = {})
            => /\ effect[r].after = {}
               /\ IsDefined(error[r])
               /\ error[r].name = "NotFound"

(* C2: an update or a delete that addresses the id of a stored default     *)
(* record is answered 403 whoever the caller is, and the record stays as    *)
(* it was.                                                                  *)
C2_DefaultsAlwaysForbidden ==
    \A r \in Reqs :
        (/\ pc[r] = "Sent"
         /\ arrived[r].op \in {"update", "delete"}
         /\ IsDefined(seen[r])
         /\ \E i \in seen[r].items : IsDefaultItem(i))
            => /\ response[r].statusCode = 403
               /\ seen[r].items \subseteq store

(* The fields of an updated record other than updatedAt: those the input   *)
(* has take its values, the others keep theirs; the key, isDefault and      *)
(* createdAt stay.                                                          *)
UpdateFrame(old, new, input) ==
    /\ DOMAIN new = DOMAIN old
    /\ \A f \in {"name", "description", "isActive", "sortOrder"} :
            new[f] = IF f \in DOMAIN input THEN input[f] ELSE old[f]
    /\ \A f \in {"userId", "axiomId", "isDefault", "createdAt"} : new[f] = old[f]

UpdatedStored(r) == Updating(r) /\ IsDefined(effect[r]) /\ effect[r].before # {}

(* C3 (as the code has it): a successful update of a stored record changes *)
(* the fields its input has and no other, and sets updatedAt to the clock   *)
(* reading it took, which is not before the prior value and may equal it.   *)
C3_UpdateFrame ==
    \A r \in Reqs :
        UpdatedStored(r) =>
            LET old == TheItem(effect[r].before)
                new == TheItem(effect[r].after)
            IN  /\ effect[r].after # {}
                /\ ~IsDefaultItem(old)
                /\ old.userId = arrived[r].sub
                /\ UpdateFrame(old, new, event[r].body.value)
                /\ new.updatedAt >= old.updatedAt
                /\ new.updatedAt <= clock
                /\ response[r].body.value.axiom = new

(* C3 (as stated): ... and updatedAt is strictly later than it was. *)
C3_UpdatedAtAdvances ==
    \A r \in Reqs :
        UpdatedStored(r) =>
            /\ UpdateFrame(TheItem(effect[r].before), TheItem(effect[r].after),
                           event[r].body.value)
            /\ TheItem(effect[r].after).updatedAt > TheItem(effect[r].before).updatedAt

(* An update with an empty input went through and moved updatedAt. *)
C3_EmptyUpdateApplied ==
    \E r \in Reqs :
        /\ UpdatedStored(r)
        /\ pc[r] = "Sent"
        /\ DOMAIN event[r].body.value = {}
        /\ TheItem(effect[r].after).updatedAt > TheItem(effect[r].before).updatedAt

(* C4: a create returns and stores a record of the caller with isDefault   *)
(* false, isActive and sortOrder from the input or true and 0, createdAt    *)
(* equal to updatedAt, and an id no other create of the run was given.      *)
C4_CreateResult ==
    /\ \A i, j \in 1..Len(minted) : i # j => minted[i] # minted[j]
    /\ \A r \in Reqs :
        (Creating(r) /\ IsDefined(effect[r])) =>
            LET input == event[r].body.value
                item == TheItem(effect[r].after)
            IN  /\ effect[r].before = {}
                /\ effect[r].after # {}
                /\ item.userId = arrived[r].sub
                /\ \E k \in 1..Len(minted) : minted[k] = item.axiomId
                /\ item.name = input.name
                /\ item.description = input.description
                /\ item.isDefault = FALSE
                /\ item.isActive = (IF "isActive" \in DOMAIN input THEN input.isActive ELSE TRUE)
                /\ item.sortOrder = (IF "sortOrder" \in DOMAIN input THEN input.sortOrder ELSE 0)
                /\ item.createdAt = item.updatedAt
                /\ item.createdAt <= clock
                /\ response[r].statusCode = 201
                /\ response[r].body.value.axiom = item

(* The second create of a run answered, for an input without isActive and  *)
(* sortOrder.                                                               *)
C4_SecondCreateSent ==
    \E r \in Reqs :
        /\ Creating(r) /\ IsDefined(effect[r]) /\ pc[r] = "Sent"
        /\ DOMAIN event[r].body.value = {"name", "description"}
        /\ Len(minted) = 2

(* C5: the handler of an operation with schemas is invoked only for a      *)
(* request whose body and path parameters satisfy them, an absent part      *)
(* included; a request that fails validation causes no repository call.     *)
C5_HandlerOnlyAfterValidation ==
    \A r \in Reqs :
        calls[r] # <<>> =>
            /\ HasBodySchema(arrived[r].op) => BodyIssues(arrived[r].op, arrived[r].body) = <<>>
            /\ HasPathSchema(arrived[r].op) =>
                    (arrived[r].path # NoPath /\ PathIssues(arrived[r].path) = <<>>)

(* The fields C6 names that are invalid in a create body. *)
InvalidCreateFields(o) ==
    {f \in DOMAIN o \cap {"name", "sortOrder"} :
        IF f = "name" THEN Len(o.name) = 0 \/ Len(o.name) > 100 ELSE IsBelowZero(o.sortOrder)}

(* C6: a create whose name is empty or longer than 100 characters, or      *)
(* whose sortOrder is negative, is answered 400 with exactly one entry per  *)
(* invalid field, and writes nothing.                                       *)
C6_OneEntryPerInvalidField ==
    \A r \in Reqs :
        (/\ pc[r] = "Sent"
         /\ Creating(r)
         /\ arrived[r].body.kind = "object"
         /\ InvalidCreateFields(arrived[r].body.value) # {})
            => /\ response[r].statusCode = 400
               /\ LET details == response[r].body.value.details
                  IN  \A f \in {"name", "description", "sortOrder"} :
                        Cardinality({k \in 1..Len(details) : details[k].path = f})
                            = IF f \in InvalidCreateFields(arrived[r].body.value) THEN 1 ELSE 0
               /\ ~IsDefined(effect[r])
               /\ RepositoryCalls(r) = {}

(* C7: whichever way the response came about, it carries X-Correlation-Id  *)
(* with the id resolved on entry, and one 'Request completed' event with    *)
(* its status code was logged.                                              *)
C7_EveryResponseIsStamped ==
    \A r \in Reqs :
        pc[r] = "Sent" =>
            /\ "X-Correlation-Id" \in DOMAIN response[r].headers
            /\ response[r].headers["X-Correlation-Id"] = ResolveCorrelationId(arrived[r])
            /\ Cardinality({k \in 1..Len(logs[r]) : logs[r][k].message = "Request completed"}) = 1
            /\ \A k \in 1..Len(logs[r]) :
                    logs[r][k].message = "Request completed"
                        => logs[r][k].statusCode = response[r].statusCode

(* C8: a request that has entered the pipeline reaches Sent with a         *)
(* response; no fault leaves the pipeline without one.                      *)
C8_EveryRequestIsSent ==
    /\ [](\A r \in Reqs : pc[r] # "Thrown")
    /\ [](\A r \in Reqs : pc[r] = "Sent" => IsDefined(response[r]))
    /\ (pc["r1"] = "Received") ~> (pc["r1"] = "Sent")

(* A request whose command the table rejected was answered. *)
C8_StoreFailureSent ==
    /\ pc["r1"] = "Sent"
    /\ IsDefined(error["r1"])
    /\ error["r1"] = StoreError
    /\ response["r1"].statusCode = 500

(* C9: a request without claims.sub that gets as far as its handler is     *)
(* answered 401 and performs no repository operation.                       *)
C9_MissingSubIsUnauthorized ==
    \A r \in Reqs :
        (pc[r] = "Sent" /\ arrived[r].sub = NoSub /\ calls[r] # <<>>)
            => /\ response[r].statusCode = 401
               /\ RepositoryCalls(r) = {}

NothingOfCaller(r) ==
    /\ arrived[r].op \in {"get", "update", "delete"}
    /\ IsDefined(seen[r])
    /\ \A i \in seen[r].items : i.userId # arrived[r].sub

(* C10: a get, update or delete of an id under which the caller has no     *)
(* record is answered with one and the same 404, whether or not another     *)
(* owner has a record with that id, and writes nothing.                     *)
C10_SameNotFound ==
    \A r \in Reqs :
        (pc[r] = "Sent" /\ NothingOfCaller(r))
            => /\ response[r].statusCode = 404
               /\ response[r].body = JsonBody([error |-> "Not Found",
                                               message |-> "Axiom not found"])
               /\ ~IsDefined(effect[r])
               /\ RepositoryCalls(r) = {"findById"}

(* The 404 was given while another owner had a record with the id. *)
C10_OthersRecordHidden ==
    \E r \in Reqs :
        /\ pc[r] = "Sent" /\ NothingOfCaller(r)
        /\ seen[r].items # {}
        /\ response[r].statusCode = 404

(* The items of a list response that has been sent. *)
Listing(r) ==
    /\ pc[r] = "Sent"
    /\ arrived[r].op = "list"
    /\ response[r].statusCode = 200

ListedItems(r) == response[r].body.value.items

(* C11: the items of a list response ascend by sortOrder, and items with   *)
(* equal sortOrder ascend by axiomId.                                       *)
C11_SortedBySortOrderThenId ==
    \A r \in Reqs :
        Listing(r) =>
            \A i, j \in 1..Len(ListedItems(r)) :
                i < j =>
                    \/ ListedItems(r)[i].sortOrder < ListedItems(r)[j].sortOrder
                    \/ /\ ListedItems(r)[i].sortOrder = ListedItems(r)[j].sortOrder
                       /\ IdRank(ListedItems(r)[i].axiomId) <= IdRank(ListedItems(r)[j].axiomId)

Occurrences(q, x) == Cardinality({k \in 1..Len(q) : q[k] = x})

(* C12: a list response has each record of the caller and each default     *)
(* record exactly once and nothing else; custom counts the caller's         *)
(* records, default the default records, total both and the items.          *)
C12_ListIsUnionOfOwnAndDefaults ==
    \A r \in Reqs :
        Listing(r) =>
            LET own == QueryByUserId(store, arrived[r].sub)
                defaults == {i \in store : IsDefaultItem(i)}
                counts == response[r].body.value.counts
            IN  /\ \A x \in own \cup defaults : Occurrences(ListedItems(r), x) = 1
                /\ \A k \in 1..Len(ListedItems(r)) : ListedItems(r)[k] \in own \cup defaults
                /\ counts.custom = Cardinality(own)
                /\ counts.default = Cardinality(defaults)
                /\ counts.total = counts.custom + counts.default
                /\ counts.total = Len(ListedItems(r))

(* The step in which request r's list handler gets its second answer and   *)
(* returns.                                                                 *)
ListReturns(r) ==
    /\ pc[r] = "AwaitStore"
    /\ pending[r].cmd = "IndexQuery"
    /\ pc'[r] = "HandlerSucceeded"

Deleting(r) == IsDefined(arrived[r]) /\ arrived[r].op = "delete"

(* The step in which the table applies request r's delete command. *)
DeleteLands(r) ==
    /\ pc[r] = "AwaitStore"
    /\ pending[r].cmd = "Delete"
    /\ pc'[r] # pc[r]
    /\ IsDefined(effect'[r])

(* C14: a delete command on a key under which nothing is stored completes  *)
(* without error and leaves the table as it was; a delete request for an id *)
(* the caller has no record under is answered 404.                          *)
C14_DeleteIsIdempotent ==
    /\ [](\A r \in Reqs :
            (Deleting(r) /\ IsDefined(effect[r]) /\ effect[r].before = {})
                => /\ effect[r].after = {}
                   /\ ~IsDefined(error[r])
                   /\ response[r].statusCode = 204)
    /\ [](\A r \in Reqs :
            (pc[r] = "Sent" /\ Deleting(r) /\ IsDefined(seen[r])
                /\ \A i \in seen[r].items : i.userId # arrived[r].sub)
                => /\ response[r].statusCode = 404
                   /\ ~IsDefined(effect[r]))
    /\ [][\A r \in Reqs :
            (DeleteLands(r) /\ GetItem(store, pending[r].userId, pending[r].axiomId) = {})
                => store' = store]_vars

(* A delete command has been applied to a key that a delete before it had  *)
(* emptied, and its request has been answered.                              *)
C14_SecondDeleteApplied ==
    \E r \in Reqs :
        /\ pc[r] = "Sent" /\ Deleting(r)
        /\ IsDefined(effect[r])
        /\ effect[r].before = {}
        /\ response[r].statusCode = 204

(* The record the scenario's create stores. *)
ScenarioRecord(sortOrder, now) ==
    [userId |-> "u1", axiomId |-> ulid(0), name |-> "Brevity",
     description |-> "Keep it short", isDefault |-> FALSE, isActive |-> TRUE,
     sortOrder |-> sortOrder, createdAt |-> now, updatedAt |-> now]

(* C15: create, list, update {sortOrder: 5}, delete and get by one caller  *)
(* are answered 201 with a generated id and isActive true, a list that has  *)
(* the new record, 200 with sortOrder 5 and the name it had, 204 with an    *)
(* empty body, and 404.                                                     *)
C15_EndToEnd ==
    LET answered(k) == served = k /\ pc["r1"] = "Sent"
        res == response["r1"]
    IN  /\ answered(1) =>
            /\ res.statusCode = 201
            /\ \E now \in 0..clock : res.body.value.axiom = ScenarioRecord(1, now)
            /\ res.body.value.axiom.axiomId = minted[1]
            /\ res.body.value.axiom \in store
        /\ answered(2) =>
            /\ res.statusCode = 200
            /\ \E k \in 1..Len(res.body.value.items), now \in 0..clock :
                    res.body.value.items[k] = ScenarioRecord(1, now)
        /\ answered(3) =>
            /\ res.statusCode = 200
            /\ res.body.value.axiom.axiomId = ulid(0)
            /\ res.body.value.axiom.sortOrder = 5
            /\ res.body.value.axiom.name = "Brevity"
            /\ res.body.value.axiom \in store
        /\ answered(4) =>
            /\ res.statusCode = 204
            /\ res.body = EmptyBody
            /\ GetItem(store, "u1", ulid(0)) = {}
        /\ answered(5) =>
            /\ res.statusCode = 404
            /\ store = SeedStore

(* The last request of the scenario has been answered. *)
C15_ScenarioCompleted ==
    /\ served = Len(ScenarioRequests)
    /\ pc["r1"] = "Sent"
    /\ arrived["r1"].op = "get"
    /\ response["r1"].statusCode = 404

(* C16: every response with a status of 400 or above has a JSON body with  *)
(* error and message, and nothing besides them but details.                 *)
C16_ErrorEnvelope ==
    \A r \in Reqs :
        (pc[r] = "Sent" /\ response[r].statusCode >= 400)
            => /\ response[r].body.kind = "json"
               /\ {"error", "message"} \subseteq DOMAIN response[r].body.value
               /\ DOMAIN response[r].body.value \subseteq {"error", "message", "details"}

CorsHeaderNames ==
    {"Access-Control-Allow-Origin", "Access-Control-Allow-Credentials",
     "Access-Control-Allow-Headers"}

(* C17: every response the pipeline returns has the Access-Control-*       *)
(* headers.                                                                 *)
C17_CorsOnEveryResponse ==
    \A r \in Reqs :
        pc[r] = "Sent" => CorsHeaderNames \subseteq DOMAIN response[r].headers

(* A response to a thrown error has been sent, with the headers. *)
C17_CorsOnFault ==
    \E r \in Reqs :
        /\ pc[r] = "Sent"
        /\ IsDefined(error[r])
        /\ response[r].statusCode = 500
        /\ CorsHeaderNames \subseteq DOMAIN response[r].headers

(* C18: without a corsOrigins option the allowed origin is any origin      *)
(* outside production and never the wildcard in production.                 *)
C18_PermissiveOnlyOutsideProduction ==
    \A r \in Reqs :
        pc[r] = "Sent" =>
            /\ DefaultOrigins(isDevEnvironment)[1] = "*" <=> isDevEnvironment
            /\ getCorsHeaders(isDevEnvironment)["Access-Control-Allow-Origin"] = "*"
                    <=> isDevEnvironment
            /\ response[r].headers["Access-Control-Allow-Origin"] = "*" <=> isDevEnvironment

SeededKey(item) ==
    \E s \in SeedStore : s.userId = item.userId /\ s.axiomId = item.axiomId

(* C19: whatever requests interleave, a stored record is a default exactly  *)
(* when it is one of the seeded defaults, and each seeded default is still  *)
(* stored as a default: no request turns a record into a default or a       *)
(* default into an ordinary record.                                         *)
C19_IsDefaultNeverFlips ==
    /\ \A i \in store : IsDefaultItem(i) <=> SeededKey(i)
    /\ \A s \in SeedStore : \E i \in store : i.userId = s.userId /\ i.axiomId = s.axiomId

(* An update whose body asks for isDefault has been applied to a stored     *)
(* record, which is still not a default.                                    *)
C19_IsDefaultInBodyIgnored ==
    \E r \in Reqs :
        /\ pc[r] = "Sent"
        /\ UpdatedStored(r)
        /\ arrived[r].body = ObjectBody([isDefault |-> TRUE])
        /\ response[r].statusCode = 200
        /\ effect[r].after # {}
        /\ \A i \in effect[r].after : i \in store /\ ~IsDefaultItem(i)

(* The update's write found no item under its key. *)
LateUpdate(r) ==
    /\ Updating(r)
    /\ pc[r] = "Sent"
    /\ IsDefined(effect[r])
    /\ effect[r].before = {}

(* C20: an update whose write lands after the record it found has been     *)
(* deleted still answers 200 'Axiom updated successfully', and leaves an    *)
(* item under the deleted record's key.                                     *)
C20_LateUpdateSucceeds ==
    \A r \in Reqs :
        LateUpdate(r) =>
            /\ IsDefined(seen[r])
            /\ \E i \in seen[r].items : i.userId = getUserId(arrived[r])
            /\ response[r].statusCode = 200
            /\ response[r].body.value.message = "Axiom updated successfully"
            /\ effect[r].after # {}

(* The caller's delete removed the record between the update's findById    *)
(* and its write; both have been answered.                                  *)
C20_DeleteBetweenCheckAndWrite ==
    \E r, d \in Reqs :
        /\ LateUpdate(r)
        /\ response[r].statusCode = 200
        /\ Deleting(d)
        /\ pc[d] = "Sent"
        /\ response[d].statusCode = 204
        /\ getUserId(arrived[d]) = getUserId(arrived[r])
        /\ arrived[d].path = arrived[r].path
        /\ IsDefined(effect[d])
        /\ effect[d].before # {}
        /\ effect[d].before = {i \in seen[r].items : i.userId = getUserId(arrived[r])}

(* The attributes of the Axiom entity. *)
AxiomFields ==
    {"userId", "axiomId", "name", "description", "isDefault", "isActive",
     "sortOrder", "createdAt", "updatedAt"}

(* C21: every stored record has all nine attributes of the entity.         *)
C21_RecordsAreComplete ==
    \A i \in store : AxiomFields \subseteq DOMAIN i

(* The requesting caller's id: the partition key of every write. *)
WritesOwnPartition(r) ==
    (pc[r] = "AwaitStore" /\ pending[r].cmd \in {"Put", "Update", "Delete"})
        => /\ getUserId(arrived[r]) \in Users
           /\ IF pending[r].cmd = "Put"
              THEN pending[r].item.userId = getUserId(arrived[r])
              ELSE pending[r].userId = getUserId(arrived[r])

OwnedBy(st, owner) == {i \in st : i.userId = owner}

(* C22: every write a request sends to the table has the requesting        *)
(* caller's id as partition key, and a step changes the records stored     *)
(* under an owner only when it is the table's answer to a request of that  *)
(* owner.                                                                   *)
C22_WritesStayInOwnPartition ==
    /\ [](\A r \in Reqs : WritesOwnPartition(r))
    /\ [][\A owner \in Users \cup {"sys"} :
            OwnedBy(store', owner) # OwnedBy(store, owner)
                => \E r \in Reqs : /\ pc[r] = "AwaitStore"
                                   /\ pc'[r] # pc[r]
                                   /\ getUserId(arrived[r]) = owner]_vars

(* Caller u2's update or delete addressed at u1's record has been answered *)
(* and u2 has written a record of its own; u1's record is stored as u1     *)
(* left it.                                                                 *)
C22_OthersRequestLeftRecord ==
    \E r, q \in Reqs :
        /\ pc[r] = "Sent"
        /\ arrived[r].op \in {"update", "delete"}
        /\ getUserId(arrived[r]) = "u2"
        /\ arrived[r].path = UlidPool[1]
        /\ response[r].statusCode = 404
        /\ pc[q] = "Sent"
        /\ Creating(q)
        /\ getUserId(arrived[q]) = "u2"
        /\ IsDefined(effect[q])
        /\ effect[q].after \subseteq store
        /\ effect[q].after # {}
        /\ \E i \in store : /\ i.userId = "u1" /\ i.axiomId = UlidPool[1]
                            /\ AxiomFields \subseteq DOMAIN i
                            /\ i.name = "Brevity"

(* An update whose path parameters are invalid has been answered. *)
InvalidPathSent(r) ==
    /\ pc[r] = "Sent"
    /\ Updating(r)
    /\ arrived[r].body.kind # "malformed"
    /\ arrived[r].path # NoPath
    /\ PathIssues(arrived[r].path) # <<>>

InvalidBody(r) ==
    BodyTruthy(arrived[r].body) /\ UpdateBodyIssues(arrived[r].body) # <<>>

Details(r) == response[r].body.value.details

(* C24: validation takes the body before the path parameters and stops at  *)
(* the first part with violations: when both are invalid the 400 lists the *)
(* body's violations and none of the path's; the path's violations are     *)
(* listed only when the body is absent or valid.                           *)
C24_FirstInvalidPartOnly ==
    \A r \in Reqs :
        InvalidPathSent(r) =>
            /\ response[r].statusCode = 400
            /\ calls[r] = <<>>
            /\ IF InvalidBody(r)
               THEN /\ Details(r) = UpdateBodyIssues(arrived[r].body)
                    /\ \A k \in 1..Len(Details(r)) : Details(r)[k].path # "axiomId"
               ELSE Details(r) = PathIssues(arrived[r].path)

(* An update with an empty name and an empty axiomId has been answered 400 *)
(* with the one violation of the body.                                      *)
C24_BothPartsInvalid ==
    \E r \in Reqs :
        /\ InvalidPathSent(r)
        /\ InvalidBody(r)
        /\ arrived[r].body = ObjectBody([name |-> ""])
        /\ response[r].statusCode = 400
        /\ Len(Details(r)) = 1
        /\ Details(r)[1].path = "name"

(* The step is r's handler reaching its getAxiomRepository() call: the     *)
(* caller id has been read and, where the handler takes the axiomId from   *)
(* the path parameters first, they are there.                               *)
CallsGetAxiomRepository(r) ==
    /\ pc[r] = "Dispatching"
    /\ pc'[r] # pc[r]
    /\ HasUserId(event[r])
    /\ event[r].op \in {"get", "update", "delete"} => event[r].path # NoPath

(* C23: in a process, a getAxiomRepository call that finds nothing cached   *)
(* constructs one instance and caches it; every call after it, up to the    *)
(* next resetContainer, returns the cached instance and constructs none;    *)
(* nothing else constructs or replaces an instance, and no step of a       *)
(* request clears the cache.                                                *)
C23_OneInstancePerProcess ==
    [][\A r \in Reqs :
        /\ (CallsGetAxiomRepository(r) /\ ~IsDefined(axiomRepository[r]))
                => /\ constructed'[r] = constructed[r] + 1
                   /\ axiomRepository'[r] = [instance |-> constructed'[r]]
        /\ (CallsGetAxiomRepository(r) /\ IsDefined(axiomRepository[r]))
                => /\ constructed'[r] = constructed[r]
                   /\ axiomRepository'[r] = axiomRepository[r]
        /\ ~CallsGetAxiomRepository(r)
                => /\ constructed'[r] = constructed[r]
                   /\ \/ axiomRepository'[r] = axiomRepository[r]
                      \/ ~IsDefined(axiomRepository'[r])
        /\ (pc'[r] # pc[r] /\ IsDefined(axiomRepository[r]))
                => IsDefined(axiomRepository'[r])]_vars

(* After a create that stored a record, a later request's handler has      *)
(* called getAxiomRepository again, and the process has still constructed  *)
(* one instance.                                                            *)
C23_InstanceReused ==
    /\ served = 2
    /\ pc["r1"] = "AwaitStore"
    /\ event["r1"].op \in {"get", "update", "delete"}
    /\ \E i \in store : i.userId = "u1" /\ i.axiomId = UlidPool[1]
    /\ constructed["r1"] = 1
    /\ axiomRepository["r1"] = [instance |-> 1]

====
